---- MODULE Spec2Model ----
(***************************************************************************)
(* World Map Game (script.js): the quiz session controller.                *)
(*                                                                         *)
(* The page is single-threaded: every step of the model is one whole event *)
(* handler (a button click, a region click or the advance timer's          *)
(* callback).  Handlers are written as                                     *)
(* operators from a state record to a state record, composed in the order  *)
(* the code calls them; the action of an event stores the resulting record *)
(* into the variables.                                                     *)
(***************************************************************************)
EXTENDS Integers, Sequences, FiniteSets, TLC

VARIABLES
    dom,             \* region ids whose element exists in the document
    quizActive,      \* let quizActive
    currentTarget,   \* let currentTarget (Null or a region id)
    guessCount,      \* let guessCount
    totalQuestions,  \* let totalQuestions
    correctAnswers,  \* let correctAnswers
    promptAudio,     \* let promptAudio: Null or the region whose find_* clip is held
    nextQTimer,      \* let nextQTimer: 0 (null) or a setTimeout handle
    timers,          \* the browser's outstanding setTimeout(nextQuestion) handles
    playing,         \* find_* clips the code started and has not paused
    answered,        \* regions whose element has class 'answered'
    fill,            \* region -> inline style.fill
    questionUI,      \* questionUI.style.display
    questionBox,     \* region named in questionBox.textContent, or Null
    modal,           \* modal.style.display
    resultTitle,     \* resultTitle.textContent
    scoreText,       \* scoreText.textContent as <<correct, of, percent>>
    quizButtonText,  \* quizButton.textContent
    played,          \* the clips the last event started, in order
    lastEvent        \* the event whose handler ran last

vars == <<dom, quizActive, currentTarget, guessCount, totalQuestions,
          correctAnswers, promptAudio, nextQTimer, timers, playing, answered,
          fill, questionUI, questionBox, modal, resultTitle, scoreText,
          quizButtonText, played, lastEvent>>

----------------------------------------------------------------------------
(* Bounds of the model *)

\* number of region elements present in the document (ids lists 12)
MaxRegions == 3
\* clicks are not explored once guessCount has reached this value
MaxGuessCount == 6
\* clicks are not explored once totalQuestions has reached this value
MaxTotalQuestions == 4
\* number of region elements in the sessions followed to their end
SessionRegions == 2
\* Math.random() is drawn from {0/RandDenom, ..., (RandDenom-1)/RandDenom}
RandDenom == 3

----------------------------------------------------------------------------
(* Config *)

Null == "null"

ids == << "africa", "antarctica", "arctic", "asia", "atlantic",
          "australia", "europe", "indian", "north_america",
          "pacific", "south_america", "southern" >>

IdSet == { ids[i] : i \in 1..Len(ids) }

NEUTRAL_FILL == "#d6d6d6"
CORRECT_FILL == "#66ff66"
GUESS_COLORS == << "#ffcccc", "#ff9999", "#ff6666", "#ff3333", "#ff0000" >>

\* the threshold of `if (guessCount >= 5)`
MaxGuesses == 5

Min(a, b) == IF a < b THEN a ELSE b

\* a started clip: the file's kind and the region it names (Null for cues)
Clip(kind, id) == [kind |-> kind, id |-> id]

Event(op, region) == [op |-> op, region |-> region]

Rand == 0..(RandDenom - 1)

----------------------------------------------------------------------------
(* The state as one record, so that handlers compose *)

State ==
    [ quizActive |-> quizActive, currentTarget |-> currentTarget,
      guessCount |-> guessCount, totalQuestions |-> totalQuestions,
      correctAnswers |-> correctAnswers, promptAudio |-> promptAudio,
      nextQTimer |-> nextQTimer, timers |-> timers, playing |-> playing,
      answered |-> answered, fill |-> fill, questionUI |-> questionUI,
      questionBox |-> questionBox, modal |-> modal,
      resultTitle |-> resultTitle, scoreText |-> scoreText,
      quizButtonText |-> quizButtonText, played |-> played ]

\* r is the handler's result, computed once
Store(s) ==
    \E r \in {s} :
        /\ quizActive' = r.quizActive
        /\ currentTarget' = r.currentTarget
        /\ guessCount' = r.guessCount
        /\ totalQuestions' = r.totalQuestions
        /\ correctAnswers' = r.correctAnswers
        /\ promptAudio' = r.promptAudio
        /\ nextQTimer' = r.nextQTimer
        /\ timers' = r.timers
        /\ playing' = r.playing
        /\ answered' = r.answered
        /\ fill' = r.fill
        /\ questionUI' = r.questionUI
        /\ questionBox' = r.questionBox
        /\ modal' = r.modal
        /\ resultTitle' = r.resultTitle
        /\ scoreText' = r.scoreText
        /\ quizButtonText' = r.quizButtonText
        /\ played' = r.played

\* a handler starts with nothing played yet
Begin == [State EXCEPT !.played = << >>]

----------------------------------------------------------------------------
(* Utilities *)

\* ids.filter(pred), keeping the order of ids
RECURSIVE FilterIds(_, _)
FilterIds(keep, i) ==
    IF i > Len(ids) THEN << >>
    ELSE IF ids[i] \in keep THEN << ids[i] >> \o FilterIds(keep, i + 1)
    ELSE FilterIds(keep, i + 1)

setRegionFill(s, id, color) ==
    IF id \in dom THEN [s EXCEPT !.fill[id] = color] ELSE s

\* variant: pauses the clip but keeps the handle
stopPromptAudioKeepsHandle(s) ==
    IF s.promptAudio = Null THEN s
    ELSE [s EXCEPT !.playing = @ \ {s.promptAudio}]

stopPromptAudio(s) ==
    IF s.promptAudio = Null THEN s
    ELSE [s EXCEPT !.playing = @ \ {s.promptAudio}, !.promptAudio = Null]

\* variant: forgets the handle without clearTimeout
clearNextQTimerNoClearTimeout(s) == [s EXCEPT !.nextQTimer = 0]

clearNextQTimer(s) ==
    IF s.nextQTimer # 0
    THEN [s EXCEPT !.timers = @ \ {s.nextQTimer}, !.nextQTimer = 0]
    ELSE s

\* setTimeout returns a handle that no outstanding timer has and that differs
\* from the handle just cleared (browsers hand out increasing handles)
NewHandle(used) == CHOOSE h \in 1..(Cardinality(used) + 1) : h \notin used

\* variant: schedules without cancelling the pending timer
scheduleNextQuestionNoClear(s) ==
    LET h == NewHandle(s.timers \cup {s.nextQTimer})
    IN  [s EXCEPT !.timers = @ \cup {h}, !.nextQTimer = h]

scheduleNextQuestion(s) ==
    LET c == clearNextQTimer(s)
        h == NewHandle(s.timers \cup {s.nextQTimer})
    IN  [c EXCEPT !.timers = @ \cup {h}, !.nextQTimer = h]

resetAllColors(s) ==
    [s EXCEPT !.fill = [id \in dom |->
        IF id \in s.answered THEN s.fill[id] ELSE NEUTRAL_FILL]]

updateQuizButtonUI(s) ==
    [s EXCEPT !.quizButtonText =
        IF s.quizActive THEN "Exit Quiz" ELSE "Start Quiz Mode"]

\* variant: truncates instead of rounding
ScoreTruncates(correct) == (100 * correct) \div Len(ids)

\* Math.round(correct / ids.length * 100)
Score(correct) == (2 * 100 * correct + Len(ids)) \div (2 * Len(ids))

----------------------------------------------------------------------------
(* Quiz flow *)

\* variant: leaves currentTarget set when the results are shown
showQuizResultsKeepsTarget(s) ==
    LET a == updateQuizButtonUI(stopPromptAudio(clearNextQTimer(
                 [s EXCEPT !.quizActive = FALSE])))
        score == Score(a.correctAnswers)
    IN  [a EXCEPT
            !.resultTitle = IF score = 100 THEN "Great Job!" ELSE "Quiz Complete!",
            !.scoreText = << a.correctAnswers, Len(ids), score >>,
            !.modal = "block",
            !.played = IF score = 100 THEN Append(@, Clip("great_job", Null)) ELSE @]

showQuizResults(s) ==
    LET a == updateQuizButtonUI(stopPromptAudio(clearNextQTimer(
                 [s EXCEPT !.quizActive = FALSE, !.currentTarget = Null])))
        score == Score(a.correctAnswers)
    IN  [a EXCEPT
            !.resultTitle = IF score = 100 THEN "Great Job!" ELSE "Quiz Complete!",
            !.scoreText = << a.correctAnswers, Len(ids), score >>,
            !.modal = "block",
            !.played = IF score = 100 THEN Append(@, Clip("great_job", Null)) ELSE @]

\* variant: the filter does not look at the 'answered' class
unansweredOfAll(s) == FilterIds(dom, 1)

unansweredOf(s) == FilterIds(dom \ s.answered, 1)

\* variant: a new question does not reset guessCount
nextQuestionKeepsGuessCount(s, rnd) ==
    LET a == resetAllColors(stopPromptAudio(clearNextQTimer(s)))
        unanswered == unansweredOf(a)
    IN  IF Len(unanswered) = 0 THEN showQuizResults(a)
        ELSE LET t == unanswered[((rnd * Len(unanswered)) \div RandDenom) + 1]
             IN  [a EXCEPT !.currentTarget = t,
                           !.promptAudio = t,
                           !.playing = @ \cup {t},
                           !.played = Append(@, Clip("find", t)),
                           !.questionBox = t]

\* rnd stands for Math.random() = rnd / RandDenom
nextQuestion(s, rnd) ==
    LET a == resetAllColors(stopPromptAudio(clearNextQTimer(s)))
        unanswered == unansweredOf(a)
    IN  IF Len(unanswered) = 0 THEN showQuizResults(a)
        ELSE LET t == unanswered[((rnd * Len(unanswered)) \div RandDenom) + 1]
             IN  [a EXCEPT !.currentTarget = t,
                           !.guessCount = 0,
                           !.promptAudio = t,
                           !.playing = @ \cup {t},
                           !.played = Append(@, Clip("find", t)),
                           !.questionBox = t]

startQuizFresh(s, rnd) ==
    LET a == updateQuizButtonUI(stopPromptAudio(clearNextQTimer(
                 [s EXCEPT !.quizActive = TRUE, !.currentTarget = Null,
                           !.guessCount = 0, !.totalQuestions = 0,
                           !.correctAnswers = 0])))
        b == [a EXCEPT !.questionUI = "inline-block",
                       !.answered = {},
                       !.fill = [id \in dom |-> NEUTRAL_FILL]]
    IN  nextQuestion(b, rnd)

resetQuiz(s, rnd) == startQuizFresh(s, rnd)

\* variant: exits without cancelling the pending timer
endQuizToHomeKeepsTimer(s) ==
    LET a == updateQuizButtonUI(stopPromptAudio(
                 [s EXCEPT !.quizActive = FALSE, !.currentTarget = Null]))
    IN  [a EXCEPT !.questionUI = "none",
                  !.answered = {},
                  !.fill = [id \in dom |-> ""],
                  !.totalQuestions = 0,
                  !.correctAnswers = 0,
                  !.modal = "none"]

endQuizToHome(s) ==
    LET a == updateQuizButtonUI(stopPromptAudio(clearNextQTimer(
                 [s EXCEPT !.quizActive = FALSE, !.currentTarget = Null])))
    IN  [a EXCEPT !.questionUI = "none",
                  !.answered = {},
                  !.fill = [id \in dom |-> ""],
                  !.totalQuestions = 0,
                  !.correctAnswers = 0,
                  !.modal = "none"]

----------------------------------------------------------------------------
(* Region clicks: both listeners of the element run, in registration order *)

\* variant: the region's clip plays during a quiz too
regularClickNoGuard(s, id) ==
    [s EXCEPT !.played = Append(@, Clip("region", id))]

regularClick(s, id) ==
    IF s.quizActive THEN s
    ELSE [s EXCEPT !.played = Append(@, Clip("region", id))]

\* variant: a correct answer schedules no advance timer
correctBranchNoSchedule(s, id) ==
    LET a == setRegionFill([s EXCEPT !.answered = @ \cup {id}], id, CORRECT_FILL)
    IN  [a EXCEPT
            !.correctAnswers = IF s.guessCount = 0 THEN @ + 1 ELSE @,
            !.totalQuestions = @ + 1,
            !.played = Append(@, Clip("correct", Null))]

\* variant: a correct answer does not flag the region answered
correctBranchNoAnsweredFlag(s, id) ==
    LET a == setRegionFill(s, id, CORRECT_FILL)
        b == [a EXCEPT
                !.correctAnswers = IF s.guessCount = 0 THEN @ + 1 ELSE @,
                !.totalQuestions = @ + 1,
                !.played = Append(@, Clip("correct", Null))]
    IN  scheduleNextQuestion(b)

\* variant: credits the answer whatever guessCount is
correctBranchAlwaysCredits(s, id) ==
    LET a == setRegionFill([s EXCEPT !.answered = @ \cup {id}], id, CORRECT_FILL)
        b == [a EXCEPT
                !.correctAnswers = @ + 1,
                !.totalQuestions = @ + 1,
                !.played = Append(@, Clip("correct", Null))]
    IN  scheduleNextQuestion(b)

\* the branch taken when the clicked region is the target
correctBranch(s, id) ==
    LET a == setRegionFill([s EXCEPT !.answered = @ \cup {id}], id, CORRECT_FILL)
        b == [a EXCEPT
                !.correctAnswers = IF s.guessCount = 0 THEN @ + 1 ELSE @,
                !.totalQuestions = @ + 1,
                !.played = Append(@, Clip("correct", Null))]
    IN  scheduleNextQuestion(b)

\* variant: the threshold test is > instead of >=
incorrectBranchLateThreshold(s, id) ==
    LET a == setRegionFill(s, id,
                 GUESS_COLORS[Min(s.guessCount, Len(GUESS_COLORS) - 1) + 1])
        b == [a EXCEPT !.guessCount = @ + 1,
                       !.played = Append(@, Clip("try_again", Null))]
    IN  IF b.guessCount > MaxGuesses
        THEN LET c == IF b.currentTarget \in dom
                      THEN setRegionFill(
                               [b EXCEPT !.answered = @ \cup {b.currentTarget}],
                               b.currentTarget, CORRECT_FILL)
                      ELSE b
             IN  scheduleNextQuestion([c EXCEPT !.totalQuestions = @ + 1])
        ELSE b

\* the branch taken when the clicked region is not the target
incorrectBranch(s, id) ==
    LET a == setRegionFill(s, id,
                 GUESS_COLORS[Min(s.guessCount, Len(GUESS_COLORS) - 1) + 1])
        b == [a EXCEPT !.guessCount = @ + 1,
                       !.played = Append(@, Clip("try_again", Null))]
    IN  IF b.guessCount >= MaxGuesses
        THEN LET c == IF b.currentTarget \in dom
                      THEN setRegionFill(
                               [b EXCEPT !.answered = @ \cup {b.currentTarget}],
                               b.currentTarget, CORRECT_FILL)
                      ELSE b
             IN  scheduleNextQuestion([c EXCEPT !.totalQuestions = @ + 1])
        ELSE b

\* variant: no guard on the 'answered' class
quizClickNoAnsweredGuard(s, id) ==
    IF ~s.quizActive \/ s.currentTarget = Null THEN s
    ELSE IF id = s.currentTarget THEN correctBranch(s, id)
    ELSE incorrectBranch(s, id)

quizClick(s, id) ==
    IF ~s.quizActive \/ s.currentTarget = Null THEN s
    ELSE IF id \in s.answered THEN s
    ELSE IF id = s.currentTarget THEN correctBranch(s, id)
    ELSE incorrectBranch(s, id)

regionClick(s, id) == quizClick(regularClick(s, id), id)

----------------------------------------------------------------------------
(* Controls *)

quizButtonClick(s, rnd) ==
    IF s.quizActive THEN endQuizToHome(s) ELSE startQuizFresh(s, rnd)

repeatClick(s) ==
    IF s.promptAudio = Null THEN s
    ELSE [s EXCEPT !.playing = @ \cup {s.promptAudio},
                   !.played = Append(@, Clip("find", s.promptAudio))]

homeClick(s) == endQuizToHome([s EXCEPT !.modal = "none"])

practiceClick(s, rnd) ==
    startQuizFresh(stopPromptAudio(clearNextQTimer([s EXCEPT !.modal = "none"])), rnd)

----------------------------------------------------------------------------
(* The state machine *)

Init ==
    /\ \E n \in 0..MaxRegions : dom = { ids[i] : i \in 1..n }
    /\ quizActive = FALSE
    /\ currentTarget = Null
    /\ guessCount = 0
    /\ totalQuestions = 0
    /\ correctAnswers = 0
    /\ promptAudio = Null
    /\ nextQTimer = 0
    /\ timers = {}
    /\ playing = {}
    /\ answered = {}
    /\ fill = [id \in dom |-> ""]
    /\ questionUI = ""
    /\ questionBox = Null
    /\ modal = ""
    /\ resultTitle = ""
    /\ scoreText = << >>
    /\ quizButtonText = "Start Quiz Mode"
    /\ played = << >>
    /\ lastEvent = Event("load", Null)

\* the Start Quiz / Exit Quiz toggle, when it starts a quiz
StartQuiz ==
    /\ ~quizActive
    /\ \E rnd \in Rand : Store(quizButtonClick(Begin, rnd))
    /\ lastEvent' = Event("start", Null)
    /\ UNCHANGED dom

\* the same button, when it exits the quiz
ExitQuiz ==
    /\ quizActive
    /\ Store(quizButtonClick(Begin, 0))
    /\ lastEvent' = Event("exit", Null)
    /\ UNCHANGED dom

ResetClick ==
    /\ \E rnd \in Rand : Store(resetQuiz(Begin, rnd))
    /\ lastEvent' = Event("reset", Null)
    /\ UNCHANGED dom

RepeatClick ==
    /\ Store(repeatClick(Begin))
    /\ lastEvent' = Event("repeat", Null)
    /\ UNCHANGED dom

\* the listener tests nothing: it runs in every state
HomeClick ==
    /\ Store(homeClick(Begin))
    /\ lastEvent' = Event("home", Null)
    /\ UNCHANGED dom

\* the listener tests nothing: pressed during a quiz, it restarts it
PracticeClick ==
    /\ \E rnd \in Rand : Store(practiceClick(Begin, rnd))
    /\ lastEvent' = Event("practice", Null)
    /\ UNCHANGED dom

RegionClick(id) ==
    /\ guessCount < MaxGuessCount
    /\ totalQuestions < MaxTotalQuestions
    /\ Store(regionClick(Begin, id))
    /\ lastEvent' = Event("click", id)
    /\ UNCHANGED dom

\* the browser runs the callback of an outstanding setTimeout(nextQuestion)
TimerFire(h) ==
    /\ h \in timers
    /\ \E rnd \in Rand :
          Store(nextQuestion([Begin EXCEPT !.timers = @ \ {h}], rnd))
    /\ lastEvent' = Event("timer", Null)
    /\ UNCHANGED dom

Next ==
    \/ StartQuiz
    \/ ExitQuiz
    \/ ResetClick
    \/ RepeatClick
    \/ HomeClick
    \/ PracticeClick
    \/ \E id \in dom : RegionClick(id)
    \/ \E h \in timers : TimerFire(h)

Spec == Init /\ [][Next]_vars

----------------------------------------------------------------------------
(* One session: the clicks and timer callbacks that follow a start, with no
   exit and no reset *)

\* a region click; only the clicks that pile up on an already resolved
\* question are cut off, at guessCount = MaxGuessCount
SessionClick(id) ==
    /\ (quizActive /\ currentTarget \in answered) => guessCount < MaxGuessCount
    /\ Store(regionClick(Begin, id))
    /\ lastEvent' = Event("click", id)
    /\ UNCHANGED dom

\* the first start of a freshly loaded page
FirstStart == lastEvent.op = "load" /\ StartQuiz

\* a click that resolves the current question
ResolvingClick ==
    \E id \in dom :
        /\ quizActive /\ currentTarget # Null /\ currentTarget \notin answered
        /\ SessionClick(id)
        /\ currentTarget \in answered'

NextSession ==
    \/ FirstStart
    \/ \E id \in dom : SessionClick(id)
    \/ \E h \in timers : TimerFire(h)

\* the timer's callback runs once its delay has passed, and the player goes
\* on guessing until the question is resolved
InitSession == Init /\ Cardinality(dom) <= SessionRegions

SpecSession ==
    /\ InitSession
    /\ [][NextSession]_vars
    /\ WF_vars(FirstStart)
    /\ WF_vars(\E h \in timers : TimerFire(h))
    /\ WF_vars(ResolvingClick)

----------------------------------------------------------------------------
(* The end of a session on the full map: all 12 region elements exist, the
   eleventh question has just been resolved and its timer is pending *)

InitEndgame ==
    \E i \in 1..Len(ids), g \in 0..MaxGuesses, c \in 0..(Len(ids) - 1) :
      \* u is the region still unanswered, t the target just resolved (the
      \* next id, cyclically: the other placements differ by a renaming)
      LET u == ids[i]
          t == ids[(i % Len(ids)) + 1]
      IN
        \* a first-guess answer was credited, a later or forced one was not
        /\ g = 0 => c >= 1
        /\ g > 0 => c <= Len(ids) - 2
        /\ dom = IdSet
        /\ quizActive = TRUE
        /\ currentTarget = t
        /\ guessCount = g
        /\ totalQuestions = Len(ids) - 1
        /\ correctAnswers = c
        /\ promptAudio = t
        /\ nextQTimer = 1
        /\ timers = {1}
        /\ playing = {t}
        /\ answered = IdSet \ {u}
        /\ fill = [id \in IdSet |->
                     IF id # u THEN CORRECT_FILL
                     ELSE IF g = 0 THEN NEUTRAL_FILL ELSE GUESS_COLORS[g]]
        /\ questionUI = "inline-block"
        /\ questionBox = t
        /\ modal = ""
        /\ resultTitle = ""
        /\ scoreText = << >>
        /\ quizButtonText = "Exit Quiz"
        /\ played = IF g = MaxGuesses THEN << Clip("try_again", Null) >>
                    ELSE << Clip("correct", Null) >>
        /\ lastEvent = IF g = MaxGuesses THEN Event("click", u)
                       ELSE Event("click", t)

NextEndgame ==
    \/ \E id \in dom : SessionClick(id)
    \/ \E h \in timers : TimerFire(h)

SpecEndgame == InitEndgame /\ [][NextEndgame]_vars


----------------------------------------------------------------------------
(* The states of the session, as the specification names them *)

Idle == ~quizActive /\ modal # "block"
AwaitingAnswer == quizActive /\ currentTarget # Null /\ currentTarget \notin answered
Resolving == quizActive /\ currentTarget # Null /\ currentTarget \in answered
Complete == ~quizActive /\ modal = "block"

TimerPending == nextQTimer # 0 /\ nextQTimer \in timers

SelectingOps == {"start", "reset", "practice", "timer"}
StartingOps == {"start", "reset", "practice"}
ExitingOps == {"exit", "home"}

Kinds(seq) == { seq[i].kind : i \in 1..Len(seq) }

----------------------------------------------------------------------------
(* C1 *)

\* C1: every question adds exactly 1 to totalQuestions between the selection
\* of its target and the next selection (or completion), however clicks and
\* the advance timer interleave.  Every resolved question flags exactly its
\* own target answered and the counter and the flags are cleared together,
\* so at every moment totalQuestions is the number of answered regions, and
\* on completion it is the number of regions.
C1_TotalOncePerQuestion ==
    /\ totalQuestions = Cardinality(answered)
    /\ Complete => totalQuestions = Cardinality(dom)

----------------------------------------------------------------------------
(* C2 *)

\* C2: a region click adds 1 to correctAnswers exactly when the clicked
\* region is the current target, the target is not yet answered and
\* guessCount is 0; every other click leaves correctAnswers unchanged; and
\* correctAnswers never grows except in a step that turns the current
\* target from unanswered to answered, which happens once per question.
C2_CreditOnlyFirstGuess ==
    [][ /\ \A id \in dom : RegionClick(id) =>
            IF id = currentTarget /\ id \notin answered /\ guessCount = 0
            THEN correctAnswers' = correctAnswers + 1
            ELSE correctAnswers' = correctAnswers
        /\ correctAnswers' > correctAnswers =>
            /\ lastEvent'.op = "click"
            /\ lastEvent'.region = currentTarget
            /\ correctAnswers' = correctAnswers + 1
            /\ currentTarget' = currentTarget
            /\ currentTarget \notin answered
            /\ currentTarget \in answered' ]_vars

\* a correct click after a wrong guess: resolved, not credited
C2_Witness ==
    /\ lastEvent = Event("click", currentTarget)
    /\ Kinds(played) = {"correct"}
    /\ guessCount > 0
    /\ correctAnswers = 0
    /\ totalQuestions = 1

----------------------------------------------------------------------------
(* C3 *)

\* C3: in every reachable state guessCount is between 0 and 5.
C3_GuessCountAtMostFive == guessCount \in 0..MaxGuesses

----------------------------------------------------------------------------
(* C4 *)

\* C4: a wrong click in AwaitingAnswer that brings guessCount to 5 flags the
\* target (and only the target) answered, colors it correct, adds 1 to
\* totalQuestions, leaves correctAnswers alone and leaves the advance timer
\* pending; a wrong click that leaves guessCount below 5 schedules no timer,
\* flags no region and leaves totalQuestions alone.
C4_FifthWrongGuessResolves ==
    [][ \A id \in dom :
          (AwaitingAnswer /\ id # currentTarget /\ id \notin answered
              /\ RegionClick(id)) =>
            /\ guessCount' = guessCount + 1
            /\ IF guessCount' = MaxGuesses
               THEN /\ answered' = answered \cup {currentTarget}
                    /\ id \notin answered'
                    /\ fill'[currentTarget] = CORRECT_FILL
                    /\ totalQuestions' = totalQuestions + 1
                    /\ correctAnswers' = correctAnswers
                    /\ nextQTimer' # 0
                    /\ timers' = {nextQTimer'}
               ELSE /\ guessCount' < MaxGuesses
                    /\ answered' = answered
                    /\ totalQuestions' = totalQuestions
                    /\ nextQTimer' = 0
                    /\ timers' = {} ]_vars

\* the fifth wrong guess of a session's first question has just resolved it
C4_Witness ==
    /\ lastEvent.op = "click"
    /\ lastEvent.region # currentTarget
    /\ lastEvent.region \notin answered
    /\ Kinds(played) = {"try_again"}
    /\ guessCount = MaxGuesses
    /\ answered = {currentTarget}
    /\ totalQuestions = 1
    /\ correctAnswers = 0
    /\ TimerPending

----------------------------------------------------------------------------
(* C5 *)

\* C5: whenever start, reset, 'keep practicing' or the advance timer has
\* selected a target, the target is a region of the document that is not
\* flagged answered, guessCount is 0 and the prompt held (and playing) is
\* the target's; and such an event selects a target whenever an unanswered
\* region is left.
C5_TargetIsUnanswered ==
    lastEvent.op \in SelectingOps =>
        /\ currentTarget # Null =>
              /\ currentTarget \in dom \ answered
              /\ guessCount = 0
              /\ promptAudio = currentTarget
              /\ playing = {currentTarget}
              /\ Clip("find", currentTarget) \in { played[i] : i \in 1..Len(played) }
        /\ currentTarget = Null => answered = dom

\* the advance timer has selected a target after an earlier question
C5_Witness ==
    /\ lastEvent.op = "timer"
    /\ currentTarget # Null
    /\ answered # {}

----------------------------------------------------------------------------
(* C6 *)

FreshSession ==
    /\ quizActive
    /\ currentTarget # Null
    /\ guessCount = 0
    /\ totalQuestions = 0
    /\ correctAnswers = 0
    /\ answered = {}
    /\ nextQTimer = 0
    /\ timers = {}

\* C6 as stated: start() and reset() always lead to a fresh session with a
\* target: quizActive, currentTarget non-null, all counters 0, no region
\* answered, no timer pending.
C6_StartResetFresh == lastEvent.op \in StartingOps => FreshSession

\* C6 as amended: that holds when the document has at least one region
\* element; with none, start() and reset() end in Complete with the counters
\* at 0, no target and no timer.
C6_StartResetFreshIfRegions ==
    lastEvent.op \in StartingOps =>
        IF dom # {} THEN FreshSession
        ELSE /\ Complete
             /\ currentTarget = Null
             /\ guessCount = 0
             /\ totalQuestions = 0
             /\ correctAnswers = 0
             /\ nextQTimer = 0
             /\ timers = {}

\* a reset made after some question of the previous session was resolved
C6_Witness ==
    /\ lastEvent.op = "reset"
    /\ FreshSession
    /\ scoreText # << >>

----------------------------------------------------------------------------
(* C7 *)

\* C7: exit (the Exit Quiz button or the modal's Home button) always leads
\* to quizActive false, currentTarget null, no pending timer, no prompt
\* held or playing, no region flagged answered and the results modal hidden.
C7_ExitLeadsToIdle ==
    lastEvent.op \in ExitingOps =>
        /\ ~quizActive
        /\ currentTarget = Null
        /\ nextQTimer = 0
        /\ timers = {}
        /\ promptAudio = Null
        /\ playing = {}
        /\ answered = {}
        /\ modal # "block"

\* Home pressed on the results of a completed quiz
C7_Witness ==
    /\ lastEvent.op = "home"
    /\ scoreText # << >>
    /\ questionBox # Null
    /\ Idle

----------------------------------------------------------------------------
(* C8 *)

\* the part of a state that C8 compares
Observe(s) ==
    [ quizActive |-> s.quizActive, currentTarget |-> s.currentTarget,
      guessCount |-> s.guessCount, totalQuestions |-> s.totalQuestions,
      correctAnswers |-> s.correctAnswers, answered |-> s.answered,
      timerPending |-> s.nextQTimer # 0, outstanding |-> Cardinality(s.timers),
      promptAudio |-> s.promptAudio, playing |-> s.playing,
      questionPanelShown |-> s.questionUI = "inline-block",
      resultsShown |-> s.modal = "block" ]

\* C8: from every reachable state, reset() yields the same observed state as
\* exit() followed by start(), for the same random draw.
C8_ResetIsExitThenStart ==
    \A rnd \in Rand :
        Observe(resetQuiz(Begin, rnd)) =
            Observe(startQuizFresh(endQuizToHome(Begin), rnd))

----------------------------------------------------------------------------
(* C9 *)

\* C9: a region click made while the quiz is not active, or while there is
\* no target, or on a region flagged answered, changes none of guessCount,
\* totalQuestions, correctAnswers, the answered flags, the fills and the
\* timer, and plays neither the correct nor the incorrect cue.
C9_IgnoredClickChangesNothing ==
    [][ \A id \in dom :
          ((~quizActive \/ currentTarget = Null \/ id \in answered)
              /\ RegionClick(id)) =>
            /\ UNCHANGED << guessCount, totalQuestions, correctAnswers,
                            answered, fill, nextQTimer, timers >>
            /\ Kinds(played') \cap {"correct", "try_again"} = {} ]_vars

\* a click on an answered region during an active quiz was ignored
C9_Witness ==
    /\ lastEvent.op = "click"
    /\ quizActive
    /\ currentTarget # Null
    /\ lastEvent.region \in answered
    /\ played = << >>

----------------------------------------------------------------------------
(* C10 *)

\* C10: a region click made in Resolving (the target is answered and the
\* advance timer is pending) is ignored whatever the region: guessCount,
\* totalQuestions, correctAnswers, the answered flags and the pending timer
\* are unchanged and no cue plays.
C10_ResolvingIgnoresClicks ==
    [][ \A id \in dom :
          (Resolving /\ TimerPending /\ RegionClick(id)) =>
            /\ UNCHANGED << guessCount, totalQuestions, correctAnswers,
                            answered, nextQTimer, timers >>
            /\ played' = << >> ]_vars

----------------------------------------------------------------------------
(* C11 *)

\* C11: currentTarget is non-null only while quizActive is true, so it is
\* null in Idle and in Complete; and a start, reset or 'keep practicing' on
\* a document with no region element ends inactive with no target.
C11_TargetOnlyWhileActive ==
    /\ currentTarget # Null => quizActive
    /\ (lastEvent.op \in StartingOps /\ dom = {}) =>
          ~quizActive /\ currentTarget = Null

\* the advance timer found every region answered and showed the results
C11_Witness ==
    /\ lastEvent.op = "timer"
    /\ Complete
    /\ currentTarget = Null
    /\ questionBox # Null
    /\ answered = dom

----------------------------------------------------------------------------
(* C12 *)

\* C12: at most one advance callback is outstanding, and it is the one
\* nextQTimer holds (a replaced timer is cancelled and cannot fire); at most
\* one prompt clip is playing, and it is the one promptAudio holds.
C12_OneTimerOnePrompt ==
    /\ Cardinality(timers) <= 1
    /\ timers \subseteq {nextQTimer}
    /\ nextQTimer # 0 => timers = {nextQTimer}
    /\ Cardinality(playing) <= 1
    /\ playing \subseteq {promptAudio}

\* a pending timer has been replaced: only the replacement is outstanding
C12_Witness ==
    /\ nextQTimer = 2
    /\ timers = {2}
    /\ promptAudio = currentTarget
    /\ playing = {currentTarget}

----------------------------------------------------------------------------
(* C13 *)

\* sc is x rounded to the nearest integer, for x = 100 * c / 12
RoundsTo(sc, c) == 12 * (2 * sc - 1) <= 200 * c /\ 200 * c < 12 * (2 * sc + 1)

\* C13: a start or a timer callback ends in Complete exactly when it finds no
\* unanswered region; in Complete the reported score is
\* round(correctAnswers / 12 * 100), the title is the perfect-outcome title
\* and the celebration cue was played exactly when the score is 100, which
\* is exactly when correctAnswers = 12; 6 correct answers give 50.
C13_ResultsOnCompletion ==
    /\ lastEvent.op \in SelectingOps => (Complete <=> answered = dom)
    /\ Complete =>
        \E sc \in 0..100 :
            /\ scoreText = << correctAnswers, 12, sc >>
            /\ RoundsTo(sc, correctAnswers)
            /\ resultTitle = (IF sc = 100 THEN "Great Job!" ELSE "Quiz Complete!")
            /\ sc = 100 <=> correctAnswers = 12
            /\ correctAnswers = 6 => sc = 50
            /\ lastEvent.op \in SelectingOps =>
                  ("great_job" \in Kinds(played) <=> sc = 100)

\* all 12 questions credited: the perfect outcome has just been announced
C13_Witness ==
    /\ lastEvent.op = "timer"
    /\ Complete
    /\ scoreText = << 12, 12, 100 >>
    /\ resultTitle = "Great Job!"
    /\ played = << Clip("great_job", Null) >>

----------------------------------------------------------------------------
(* C14 *)

\* C14: on a region click the region's own clip plays exactly when
\* quizActive is false at the click (also in Complete); then the quiz
\* handler does nothing, and while the quiz is active the regular handler
\* plays nothing.
C14_OneHandlerPerClick ==
    [][ \A id \in dom : RegionClick(id) =>
          IF quizActive
          THEN "region" \notin Kinds(played')
          ELSE /\ played' = << Clip("region", id) >>
               /\ UNCHANGED << quizActive, currentTarget, guessCount,
                               totalQuestions, correctAnswers, promptAudio,
                               nextQTimer, timers, playing, answered, fill,
                               questionUI, questionBox, modal, resultTitle,
                               scoreText, quizButtonText >> ]_vars

\* a region clicked while the results are shown plays its own clip
C14_Witness ==
    /\ lastEvent.op = "click"
    /\ Complete
    /\ played = << Clip("region", lastEvent.region) >>

----------------------------------------------------------------------------
(* C15 *)

\* C15: a timer cancelled by exit or reset never fires.  A callback runs
\* only while the current question is resolved and only for the timer
\* nextQTimer holds; no callback runs right after an exit, start or reset;
\* and Idle lasts, with no target, prompt or timer, until the next start.
C15_CancelledTimerNeverFires ==
    [][ /\ lastEvent'.op = "timer" =>
            /\ Resolving
            /\ timers = {nextQTimer}
            /\ lastEvent.op \notin (ExitingOps \cup StartingOps)
        /\ (Idle /\ lastEvent'.op \notin StartingOps) =>
            /\ Idle'
            /\ currentTarget' = Null
            /\ promptAudio' = Null
            /\ nextQTimer' = 0
            /\ timers' = {} ]_vars

\* an exit made while a forced resolution's timer was pending (guessCount
\* reaches 5 only with the timer scheduled): nothing is left to fire
C15_Witness ==
    /\ lastEvent.op = "exit"
    /\ guessCount = MaxGuesses
    /\ Idle
    /\ timers = {}

----------------------------------------------------------------------------
(* C16 *)

\* C16: in a session without exit or reset no answered flag is ever removed,
\* every target the timer selects is unanswered while the target it
\* replaces is answered (so the targets are distinct and at most as many as
\* the regions), and, the timer firing eventually and every question being
\* resolved eventually, an active session reaches Complete.
C16_SessionTerminates ==
    /\ [][ /\ answered \subseteq answered'
           /\ (lastEvent'.op = "timer" /\ currentTarget' # Null) =>
                /\ currentTarget \in answered
                /\ currentTarget' \notin answered
                /\ currentTarget' # currentTarget
                /\ answered' = answered ]_vars
    /\ quizActive ~> Complete

\* a session over SessionRegions regions has reached Complete
C16_Witness ==
    /\ Complete
    /\ lastEvent.op = "timer"
    /\ Cardinality(dom) = SessionRegions
    /\ answered = dom

----------------------------------------------------------------------------
(* C17 *)

\* C17: exit zeroes all the session counters: after it guessCount,
\* totalQuestions and correctAnswers are 0.
C17_ExitZeroesCounters ==
    lastEvent.op \in ExitingOps =>
        guessCount = 0 /\ totalQuestions = 0 /\ correctAnswers = 0

----------------------------------------------------------------------------
(* C18 *)

\* C18: while the quiz is active the advance timer is pending exactly when
\* the current target is flagged answered, and no timer is pending while
\* the quiz is inactive.
C18_TimerIffTargetAnswered ==
    /\ quizActive =>
        /\ currentTarget \in dom
        /\ TimerPending <=> currentTarget \in answered
        /\ ~TimerPending => nextQTimer = 0 /\ timers = {}
    /\ ~quizActive => nextQTimer = 0 /\ timers = {}

\* a forced resolution: the target is answered and the timer is pending
C18_Witness ==
    /\ Resolving
    /\ TimerPending
    /\ guessCount = MaxGuesses
    /\ Kinds(played) = {"try_again"}

----------------------------------------------------------------------------
(* C19 *)

\* C19: when a session over at least one region is Complete, correctAnswers
\* is at least 1: the last question can only be resolved by a credited
\* first-guess click.
C19_LastQuestionCredited ==
    (Complete /\ dom # {}) => correctAnswers >= 1

\* every question but the last was resolved without credit
C19_Witness ==
    /\ Complete
    /\ lastEvent.op = "timer"
    /\ Cardinality(dom) = MaxRegions
    /\ correctAnswers = 1

----------------------------------------------------------------------------
(* C20 *)

\* C20: the results modal is shown only in Complete: it is never shown
\* while quizActive is true, whichever control restarts the quiz.
C20_ModalOnlyInComplete == modal = "block" => ~quizActive

----------------------------------------------------------------------------
TypeOK ==
    /\ dom \subseteq IdSet
    /\ quizActive \in BOOLEAN
    /\ currentTarget \in dom \cup {Null}
    /\ guessCount \in 0..MaxGuessCount
    /\ totalQuestions \in 0..MaxTotalQuestions
    /\ correctAnswers \in 0..MaxTotalQuestions
    /\ promptAudio \in dom \cup {Null}
    /\ nextQTimer \in Nat
    /\ timers \subseteq Nat
    /\ playing \subseteq dom
    /\ answered \subseteq dom
    /\ DOMAIN fill = dom
    /\ questionUI \in {"", "inline-block", "none"}
    /\ modal \in {"", "block", "none"}

====
